---- MODULE Spec2Model ----
(***************************************************************************)
(* The billiards mini-game of src/src/puzzles/BilliardsChallengePuzzle.tsx *)
(* as a state machine: the React state of one mounted component, the frame *)
(* callback (render -> updatePhysics), the one-shot solve timer and the    *)
(* teardown of the component.  The pointer handlers (lines 628-693) write  *)
(* only aiming, aimPos and the cue ball's velocity; they are actions of    *)
(* AimSpec, and Spec keeps aiming and aimPos at their initial values.      *)
(*                                                                         *)
(* Positions and velocities are integers (pixels), so Math.hypot(dx, dy)   *)
(* < r is the exact test dx*dx + dy*dy < r*r.  The result of the numeric   *)
(* part of a frame (integration and ball-ball collisions) is an input of   *)
(* the Frame action: up to MaxMoved active balls arrive at the clamped     *)
(* corner position next to a pocket, the other balls stay where they are.  *)
(* Everything after that (the pocket loop, the values captured by the      *)
(* updatePhysics closure, the queued React state updates and their commit) *)
(* is computed as the code computes it.                                    *)
(*                                                                         *)
(* TargetSpec and CatalogSpec apply target selection on its own,           *)
(* PhysicsSpec applies integration and collision resolution to layouts     *)
(* with balls in motion and in contact, PocketSpec runs frames over pocket *)
(* lists in which two pockets are close to each other, AimSpec interleaves *)
(* the pointer handlers with numeric frames, and EndgameSpec runs Spec's   *)
(* actions from the stage of a game at which eight balls are pocketed.     *)
(***************************************************************************)
EXTENDS Integers, Sequences, FiniteSets, TLC

\* ------------------------------------------------------------- bounds
\* Balls the numeric part of one frame may bring next to a pocket.
MaxMoved == 2
\* Numbered balls (the last ones of the ball array) that ever move.
MovableBalls == 8
\* Math.random() is sampled at the RandomSteps midpoints (2k+1)/(2*RandomSteps).
RandomSteps == 2
\* Finer sampling of Math.random() for the target selector on its own.
FineSteps == 128
\* Solve timers scheduled during the life of the component.
MaxSolves == 2
\* Speed (per axis) with which a moved ball arrives next to a pocket.
ArriveSpeed == 5
\* Length of the longest catalog target selection is tried on.
MaxCatalog == 8
\* Speed of the moving balls of the layouts the physics operators are
\* applied to.
PhysSpeed == 100
\* Largest frame time of those frames, in units of 100 ms (dtSec).
MaxDtSec == 1

\* ---------------------------------------------------- program constants
canvasWidth == 800
canvasHeight == 400
tableMargin == 40
feltLeft == tableMargin
feltTop == tableMargin
feltRight == canvasWidth - tableMargin
feltBottom == canvasHeight - tableMargin
\* baseFrictionPerSec = 0.85, as the fraction frictionNum / frictionDen
frictionNum == 85
frictionDen == 100
pocketRadius == 30
aimTolerance == 5
maxPower == 1000
ballRadius == 15
BilliardsIndex == 1
NumPuzzles == 5

pockets ==
    << [x |-> feltLeft,  y |-> feltTop],
       [x |-> feltRight, y |-> feltTop],
       [x |-> feltLeft,  y |-> feltBottom],
       [x |-> feltRight, y |-> feltBottom] >>

availableBallNumbers == << 2, 3, 7, 8, 11, 13, 17, 5, 6, 9, 12, 10 >>

\* ------------------------------------------------------------ helpers
Max(a, b) == IF a > b THEN a ELSE b
Min(a, b) == IF a < b THEN a ELSE b

RECURSIVE SumSeq(_)
SumSeq(s) == IF s = << >> THEN 0 ELSE Head(s) + SumSeq(Tail(s))

SeqContains(s, v) == \E i \in 1..Len(s) : s[i] = v

\* ------------------------------------------------------ TargetSelector
\* computeValidTargets: include/exclude recursion over the catalog; a leaf
\* adds its sum to the result Set when at least 7 numbers were included.
\* The result keeps the Set's insertion order and holds no value twice.
\* recurse with the size test lowered to 6.
RECURSIVE recurse_countSix(_, _, _, _, _)
recurse_countSix(numbers, index, count, sum, results) ==
    IF index = Len(numbers) + 1
    THEN IF count >= 6 /\ ~SeqContains(results, sum)
         THEN Append(results, sum)
         ELSE results
    ELSE LET incl == recurse_countSix(numbers, index + 1, count + 1,
                                      sum + numbers[index], results)
         IN IF Len(incl) >= 0
            THEN recurse_countSix(numbers, index + 1, count, sum, incl)
            ELSE incl

\* recurse with an array in place of the Set: every leaf's sum is appended.
RECURSIVE recurse_noSet(_, _, _, _, _)
recurse_noSet(numbers, index, count, sum, results) ==
    IF index = Len(numbers) + 1
    THEN IF count >= 7
         THEN Append(results, sum)
         ELSE results
    ELSE LET incl == recurse_noSet(numbers, index + 1, count + 1,
                                   sum + numbers[index], results)
         IN IF Len(incl) >= 0
            THEN recurse_noSet(numbers, index + 1, count, sum, incl)
            ELSE incl

RECURSIVE recurse(_, _, _, _, _)
recurse(numbers, index, count, sum, results) ==
    IF index = Len(numbers) + 1
    THEN IF count >= 7 /\ ~SeqContains(results, sum)
         THEN Append(results, sum)
         ELSE results
    ELSE LET incl == recurse(numbers, index + 1, count + 1,
                             sum + numbers[index], results)
         IN \* (the test makes TLC finish the include call before the other)
            IF Len(incl) >= 0
            THEN recurse(numbers, index + 1, count, sum, incl)
            ELSE incl

computeValidTargets(numbers) == recurse(numbers, 1, 0, 0, << >>)

\* Math.floor(Math.random() * n) for Math.random() = num / den.
RandomIndex(num, den, n) == (num * n) \div den

maxPossibleSum(numbers) == SumSeq(numbers)

\* validTargets.filter((target) => target <= maxPossibleSum)
feasibleTargets(numbers) ==
    SelectSeq(computeValidTargets(numbers),
              LAMBDA target : target <= maxPossibleSum(numbers))

\* The last two statements of generateRandomTarget without the test for an
\* empty list: indexing an empty array yields undefined, written 0 here.
PickTarget_noFallback(feasible, maxSum, num, den) ==
    IF Len(feasible) = 0
    THEN 0
    ELSE feasible[RandomIndex(num, den, Len(feasible)) + 1]

\* The last two statements of generateRandomTarget.
PickTarget(feasible, maxSum, num, den) ==
    IF Len(feasible) = 0
    THEN maxSum
    ELSE feasible[RandomIndex(num, den, Len(feasible)) + 1]

\* The catalog is fixed, so are the lists generateRandomTarget computes.
gameFeasibleTargets == feasibleTargets(availableBallNumbers)
gameMaxPossibleSum == maxPossibleSum(availableBallNumbers)

\* The body of generateRandomTarget for a catalog given as an argument.
selectTarget(numbers, num, den) ==
    PickTarget(feasibleTargets(numbers), maxPossibleSum(numbers), num, den)

\* generateRandomTarget() with Math.random() = num / den.
generateRandomTarget(num, den) ==
    PickTarget(gameFeasibleTargets, gameMaxPossibleSum, num, den)

\* The values of Math.random() the game draws, as numerators over RandomDen.
RandomDen == 2 * RandomSteps
Draws == { 2 * k + 1 : k \in 0..(RandomSteps - 1) }

\* -------------------------------------------------------------- balls
\* One entry of initialBalls (color is display data and is left out).
NewBall(n, px, py) ==
    [number |-> n, x |-> px, y |-> py, vx |-> 0, vy |-> 0,
     radius |-> ballRadius, active |-> TRUE, initialX |-> px, initialY |-> py]

\* A layout in which the ball numbered 5 carries the number 4.
initialBalls_ball4 ==
    << NewBall(0, feltLeft + 60, canvasHeight \div 2),
       NewBall(2, 400, 80),
       NewBall(3, 600, 200),
       NewBall(7, 700, 320),
       NewBall(8, 450, 250),
       NewBall(11, 550, 100),
       NewBall(13, 350, 150),
       NewBall(17, 650, 300),
       NewBall(4, 250, 100),
       NewBall(6, 200, 300),
       NewBall(9, 500, 300),
       NewBall(12, 300, 350),
       NewBall(10, 300, 200) >>

initialBalls ==
    << NewBall(0, feltLeft + 60, canvasHeight \div 2),
       NewBall(2, 400, 80),
       NewBall(3, 600, 200),
       NewBall(7, 700, 320),
       NewBall(8, 450, 250),
       NewBall(11, 550, 100),
       NewBall(13, 350, 150),
       NewBall(17, 650, 300),
       NewBall(5, 250, 100),
       NewBall(6, 200, 300),
       NewBall(9, 500, 300),
       NewBall(12, 300, 350),
       NewBall(10, 300, 200) >>

BallIdx == 1..Len(initialBalls)

\* Math.hypot(ball.x - pocket.x, ball.y - pocket.y) < pocketRadius
InPocket(ball, pocket) ==
    LET dx == ball.x - pocket.x
        dy == ball.y - pocket.y
    IN dx * dx + dy * dy < pocketRadius * pocketRadius

\* The map of resetGame's setBalls updater, for one ball.
ResetBall(ball) ==
    [ball EXCEPT !.x = ball.initialX, !.y = ball.initialY,
                 !.vx = 0, !.vy = 0, !.active = TRUE]

\* A cue-ball branch that also takes the cue ball out of play.
RespawnCue_deactivate(ball) ==
    [ball EXCEPT !.x = ball.initialX, !.y = ball.initialY, !.vx = 0, !.vy = 0,
                 !.active = FALSE]

\* The cue-ball branch of the pocket loop.
RespawnCue(ball) ==
    [ball EXCEPT !.x = ball.initialX, !.y = ball.initialY, !.vx = 0, !.vy = 0]

\* Where the boundary clamp of the integration step leaves a ball that ran
\* into the corner of the felt at pocket p, and the velocity it has there
\* (both components were negated by the two walls: it points to the felt).
ClampX(px, r) == Max(feltLeft + r, Min(feltRight - r, px))
ClampY(py, r) == Max(feltTop + r, Min(feltBottom - r, py))
Sign(a, mid) == IF a < mid THEN 1 ELSE -1

\* ---------------------------------------------------- MotionIntegrator
\* a / b rounded towards 0 (b > 0).  The layouts and time steps the
\* physics operators are applied to are those for which every division is
\* exact, so that the integer result is the code's floating-point result.
Div(a, b) == IF a >= 0 THEN a \div b ELSE -((-a) \div b)
Divides(b, a) == a % b = 0

RECURSIVE Pow(_, _)
Pow(base, k) == IF k = 0 THEN 1 ELSE base * Pow(base, k - 1)

\* v * Math.pow(baseFrictionPerSec, dtSec), for a whole number dtSec
\* (dt a multiple of 100 ms).
ApplyFriction(v, dtSec) == Div(v * Pow(frictionNum, dtSec), Pow(frictionDen, dtSec))

\* The map callback with the reflection but without the clamping.
integrateBall_noClamp(ball, dtSec) ==
    IF ~ball.active
    THEN ball
    ELSE LET x1 == ball.x + ball.vx * dtSec
             y1 == ball.y + ball.vy * dtSec
             vx1 == ApplyFriction(ball.vx, dtSec)
             vy1 == ApplyFriction(ball.vy, dtSec)
             hitX == x1 - ball.radius < feltLeft \/ x1 + ball.radius > feltRight
             hitY == y1 - ball.radius < feltTop \/ y1 + ball.radius > feltBottom
         IN [ball EXCEPT !.x = x1,
                         !.y = y1,
                         !.vx = IF hitX THEN -vx1 ELSE vx1,
                         !.vy = IF hitY THEN -vy1 ELSE vy1]

\* The map callback of updatePhysics for one ball: Euler step, friction,
\* reflection at and clamping to the felt boundaries.
integrateBall(ball, dtSec) ==
    IF ~ball.active
    THEN ball
    ELSE LET x1 == ball.x + ball.vx * dtSec
             y1 == ball.y + ball.vy * dtSec
             vx1 == ApplyFriction(ball.vx, dtSec)
             vy1 == ApplyFriction(ball.vy, dtSec)
             hitX == x1 - ball.radius < feltLeft \/ x1 + ball.radius > feltRight
             hitY == y1 - ball.radius < feltTop \/ y1 + ball.radius > feltBottom
         IN [ball EXCEPT !.x = IF hitX THEN ClampX(x1, ball.radius) ELSE x1,
                         !.y = IF hitY THEN ClampY(y1, ball.radius) ELSE y1,
                         !.vx = IF hitX THEN -vx1 ELSE vx1,
                         !.vy = IF hitY THEN -vy1 ELSE vy1]

\* prevBalls.map(...)
integrateAll(bs, dtSec) == [i \in DOMAIN bs |-> integrateBall(bs[i], dtSec)]

\* The integer friction step is exact for every active ball of bs.
IntegrateExact(bs, dtSec) ==
    \A i \in DOMAIN bs :
        bs[i].active =>
            /\ Divides(Pow(frictionDen, dtSec), bs[i].vx * Pow(frictionNum, dtSec))
            /\ Divides(Pow(frictionDen, dtSec), bs[i].vy * Pow(frictionNum, dtSec))

ArriveAt(ball, p) ==
    [ball EXCEPT !.x = ClampX(pockets[p].x, ball.radius),
                 !.y = ClampY(pockets[p].y, ball.radius),
                 !.vx = ArriveSpeed * Sign(pockets[p].x, canvasWidth \div 2),
                 !.vy = ArriveSpeed * Sign(pockets[p].y, canvasHeight \div 2)]

\* ---------------------------------------------------- CollisionResolver
\* Math.hypot for a distance below lim: the integer square root of d2.
Isqrt(d2, lim) == CHOOSE r \in 0..lim : r * r <= d2 /\ d2 < (r + 1) * (r + 1)

\* The loop body with each ball keeping its own normal component.
resolvePair_keepNormal(bs, i, j) ==
    LET ballA == bs[i]
        ballB == bs[j]
        dx == ballB.x - ballA.x
        dy == ballB.y - ballA.y
        d2 == dx * dx + dy * dy
        minDist == ballA.radius + ballB.radius
    IN IF ~ballA.active \/ ~ballB.active
       THEN bs
       ELSE IF d2 < minDist * minDist /\ d2 > 0
            THEN LET dist == Isqrt(d2, minDist)
                     vAd == ballA.vx * dx + ballA.vy * dy
                     vBd == ballB.vx * dx + ballB.vy * dy
                     vAnx == Div(vAd * dx, d2)
                     vAny == Div(vAd * dy, d2)
                     vBnx == Div(vBd * dx, d2)
                     vBny == Div(vBd * dy, d2)
                     sx == Div((minDist - dist) * dx, 2 * dist)
                     sy == Div((minDist - dist) * dy, 2 * dist)
                 IN [bs EXCEPT
                       ![i] = [ballA EXCEPT !.vx = (ballA.vx - vAnx) + vAnx,
                                            !.vy = (ballA.vy - vAny) + vAny,
                                            !.x = ballA.x - sx,
                                            !.y = ballA.y - sy],
                       ![j] = [ballB EXCEPT !.vx = (ballB.vx - vBnx) + vBnx,
                                            !.vy = (ballB.vy - vBny) + vBny,
                                            !.x = ballB.x + sx,
                                            !.y = ballB.y + sy]]
            ELSE bs

\* The loop body without the test that skips inactive balls.
\* With d = (dx, dy) and dist = |d|: vAn * nx = ((vA . d) * dx) / dist^2 and
\* (overlap / 2) * nx = ((minDist - dist) * dx) / (2 * dist).
resolvePair_noActiveTest(bs, i, j) ==
    LET ballA == bs[i]
        ballB == bs[j]
        dx == ballB.x - ballA.x
        dy == ballB.y - ballA.y
        d2 == dx * dx + dy * dy
        minDist == ballA.radius + ballB.radius
    IN IF FALSE
       THEN bs
       ELSE IF d2 < minDist * minDist /\ d2 > 0
            THEN LET dist == Isqrt(d2, minDist)
                     vAd == ballA.vx * dx + ballA.vy * dy
                     vBd == ballB.vx * dx + ballB.vy * dy
                     vAnx == Div(vAd * dx, d2)
                     vAny == Div(vAd * dy, d2)
                     vBnx == Div(vBd * dx, d2)
                     vBny == Div(vBd * dy, d2)
                     sx == Div((minDist - dist) * dx, 2 * dist)
                     sy == Div((minDist - dist) * dy, 2 * dist)
                 IN [bs EXCEPT
                       ![i] = [ballA EXCEPT !.vx = (ballA.vx - vAnx) + vBnx,
                                            !.vy = (ballA.vy - vAny) + vBny,
                                            !.x = ballA.x - sx,
                                            !.y = ballA.y - sy],
                       ![j] = [ballB EXCEPT !.vx = (ballB.vx - vBnx) + vAnx,
                                            !.vy = (ballB.vy - vBny) + vAny,
                                            !.x = ballB.x + sx,
                                            !.y = ballB.y + sy]]
            ELSE bs

\* The loop body with a pair of coincident balls pushed apart along x.
\* With d = (dx, dy) and dist = |d|: vAn * nx = ((vA . d) * dx) / dist^2 and
\* (overlap / 2) * nx = ((minDist - dist) * dx) / (2 * dist).
resolvePair_splitCoincident(bs, i, j) ==
    LET ballA == bs[i]
        ballB == bs[j]
        dx == ballB.x - ballA.x
        dy == ballB.y - ballA.y
        d2 == dx * dx + dy * dy
        minDist == ballA.radius + ballB.radius
    IN IF ~ballA.active \/ ~ballB.active
       THEN bs
       ELSE IF d2 = 0
            THEN [bs EXCEPT ![i].x = @ - ballA.radius, ![j].x = @ + ballB.radius]
       ELSE IF d2 < minDist * minDist /\ d2 > 0
            THEN LET dist == Isqrt(d2, minDist)
                     vAd == ballA.vx * dx + ballA.vy * dy
                     vBd == ballB.vx * dx + ballB.vy * dy
                     vAnx == Div(vAd * dx, d2)
                     vAny == Div(vAd * dy, d2)
                     vBnx == Div(vBd * dx, d2)
                     vBny == Div(vBd * dy, d2)
                     sx == Div((minDist - dist) * dx, 2 * dist)
                     sy == Div((minDist - dist) * dy, 2 * dist)
                 IN [bs EXCEPT
                       ![i] = [ballA EXCEPT !.vx = (ballA.vx - vAnx) + vBnx,
                                            !.vy = (ballA.vy - vAny) + vBny,
                                            !.x = ballA.x - sx,
                                            !.y = ballA.y - sy],
                       ![j] = [ballB EXCEPT !.vx = (ballB.vx - vBnx) + vAnx,
                                            !.vy = (ballB.vy - vBny) + vAny,
                                            !.x = ballB.x + sx,
                                            !.y = ballB.y + sy]]
            ELSE bs

\* The body of the two loops of handleBallCollisions for the pair i < j.
\* With d = (dx, dy) and dist = |d|: vAn * nx = ((vA . d) * dx) / dist^2 and
\* (overlap / 2) * nx = ((minDist - dist) * dx) / (2 * dist).
resolvePair(bs, i, j) ==
    LET ballA == bs[i]
        ballB == bs[j]
        dx == ballB.x - ballA.x
        dy == ballB.y - ballA.y
        d2 == dx * dx + dy * dy
        minDist == ballA.radius + ballB.radius
    IN IF ~ballA.active \/ ~ballB.active
       THEN bs
       ELSE IF d2 < minDist * minDist /\ d2 > 0
            THEN LET dist == Isqrt(d2, minDist)
                     vAd == ballA.vx * dx + ballA.vy * dy
                     vBd == ballB.vx * dx + ballB.vy * dy
                     vAnx == Div(vAd * dx, d2)
                     vAny == Div(vAd * dy, d2)
                     vBnx == Div(vBd * dx, d2)
                     vBny == Div(vBd * dy, d2)
                     sx == Div((minDist - dist) * dx, 2 * dist)
                     sy == Div((minDist - dist) * dy, 2 * dist)
                 IN [bs EXCEPT
                       ![i] = [ballA EXCEPT !.vx = (ballA.vx - vAnx) + vBnx,
                                            !.vy = (ballA.vy - vAny) + vBny,
                                            !.x = ballA.x - sx,
                                            !.y = ballA.y - sy],
                       ![j] = [ballB EXCEPT !.vx = (ballB.vx - vBnx) + vAnx,
                                            !.vy = (ballB.vy - vBny) + vAny,
                                            !.x = ballB.x + sx,
                                            !.y = ballB.y + sy]]
            ELSE bs

\* The integer arithmetic of resolvePair is exact for the pair i < j.
PairExact(bs, i, j) ==
    LET ballA == bs[i]
        ballB == bs[j]
        dx == ballB.x - ballA.x
        dy == ballB.y - ballA.y
        d2 == dx * dx + dy * dy
        minDist == ballA.radius + ballB.radius
    IN (ballA.active /\ ballB.active /\ d2 < minDist * minDist /\ d2 > 0) =>
          LET dist == Isqrt(d2, minDist)
              vAd == ballA.vx * dx + ballA.vy * dy
              vBd == ballB.vx * dx + ballB.vy * dy
          IN /\ dist * dist = d2
             /\ Divides(d2, vAd * dx) /\ Divides(d2, vAd * dy)
             /\ Divides(d2, vBd * dx) /\ Divides(d2, vBd * dy)
             /\ Divides(2 * dist, (minDist - dist) * dx)
             /\ Divides(2 * dist, (minDist - dist) * dy)

\* for (let j = i + 1; ...), from j on.  (The one-element sets only make
\* TLC finish one iteration before the next.)
RECURSIVE CollideRow(_, _, _)
CollideRow(bs, i, j) ==
    IF j > Len(bs)
    THEN bs
    ELSE CHOOSE res \in { CollideRow(r, i, j + 1) :
                             r \in { resolvePair(bs, i, j) } } : TRUE

\* for (let i = 0; ...), from i on.
RECURSIVE CollideFrom(_, _)
CollideFrom(bs, i) ==
    IF i > Len(bs)
    THEN bs
    ELSE CHOOSE res \in { CollideFrom(r, i + 1) :
                             r \in { CollideRow(bs, i, i + 1) } } : TRUE

handleBallCollisions(bs) == CollideFrom(bs, 1)

\* The integer arithmetic is exact for every pair handleBallCollisions
\* resolves on bs.
RECURSIVE RowExact(_, _, _)
RowExact(bs, i, j) ==
    IF j > Len(bs)
    THEN TRUE
    ELSE /\ PairExact(bs, i, j)
         /\ \E r \in { resolvePair(bs, i, j) } : RowExact(r, i, j + 1)

RECURSIVE CollideExactFrom(_, _)
CollideExactFrom(bs, i) ==
    IF i > Len(bs)
    THEN TRUE
    ELSE /\ RowExact(bs, i, i + 1)
         /\ \E r \in { CollideRow(bs, i, i + 1) } : CollideExactFrom(r, i + 1)

CollideExact(bs) == TRUE \in { CollideExactFrom(bs, 1) }

\* The pocket of the quarter of the table a ball is in (its nearest one).
NearestPocket(ball) ==
    1 + (IF 2 * ball.x > feltLeft + feltRight THEN 1 ELSE 0)
      + (IF 2 * ball.y > feltTop + feltBottom THEN 2 ELSE 0)

\* The outcomes of integration and collision resolution for one frame: the
\* set of balls that moved (active ones, at most MaxMoved, the cue ball or
\* one of the last MovableBalls numbered balls); each of them arrives at
\* the pocket it was nearest to; the others are at rest (an active ball
\* is at rest between the frames of this specification), so integration
\* only applies its boundary clamp to them, whatever dt is.  A ball
\* that ran past both walls of a corner is clamped to the corner position,
\* and handleBallCollisions skips a pair of balls at distance 0, so two
\* balls can arrive at the same corner in the same frame.
Movable == { i \in BallIdx : i = 1 \/ i > Len(initialBalls) - MovableBalls }

Motions(bs) ==
    { M \in SUBSET { i \in Movable : bs[i].active } : Cardinality(M) <= MaxMoved }

MotionOutcome(bs, m) ==
    [i \in BallIdx |->
        IF i \in m THEN ArriveAt(bs[i], NearestPocket(bs[i]))
        ELSE integrateBall(bs[i], 0)]

\* -------------------------------------------------------------- state
VARIABLES
    balls,               \* useState balls (after the mount effect)
    pocketedCount,       \* useState pocketedCount
    pocketedSum,         \* useState pocketedSum
    targetSum,           \* useState targetSum
    showConfetti,        \* useState showConfetti
    aiming,              \* useState aiming
    aimPos,              \* useState aimPos (NoPos for null)
    mounted,             \* the component is mounted
    rafPending,          \* outstanding requestAnimationFrame requests
    timers,              \* pending setTimeout(() => onSolve(), 7000)
    solveCalls,          \* invocations of onSolve so far
    currentPuzzleIndex,  \* PuzzlePage's useState currentPuzzleIndex
    rnd,                 \* numerator of the last Math.random() drawn
    feedback,            \* useState feedback: which message is shown
    catalog,             \* availableBallNumbers, as target selection reads it
    pocketList           \* pockets, as the pocket check reads it

vars == << balls, pocketedCount, pocketedSum, targetSum, showConfetti, aiming,
           aimPos, mounted, rafPending, timers, solveCalls,
           currentPuzzleIndex, rnd, feedback, catalog, pocketList >>

gameVars == << balls, pocketedCount, pocketedSum, targetSum, showConfetti,
               aiming, aimPos, feedback >>

NoPos == [x |-> -1, y |-> -1]

\* The messages of setFeedback, by kind (the texts carry no state).
NoFeedback == ""
FoulFeedback == "foul"
PocketedFeedback == "pocketed"
ResetFeedback == "reset"
SolvedFeedback == "solved"

\* ---------------------------------------------------- PocketEvaluator
\* The values the updatePhysics callback closed over at the last render.
Closure == [pocketedCount |-> pocketedCount, pocketedSum |-> pocketedSum,
            targetSum |-> targetSum, feedback |-> feedback]

\* What one run of the setBalls updater has done so far: newBalls as
\* mutated in place, the last value passed to setPocketedCount and to
\* setPocketedSum, whether resetGame queued its setBalls updater, and the
\* numbers of pocketings, fouls, resetGame calls and setTimeout calls.
StartQ(nb, c) ==
    [nb |-> nb, count |-> c.pocketedCount, sum |-> c.pocketedSum,
     resetBalls |-> FALSE, confetti |-> FALSE, feedback |-> c.feedback,
     pocketed |-> 0, fouls |-> 0, resets |-> 0, solves |-> 0]

\* resetGame without its setBalls call.
resetGame_keepBalls(q) ==
    [q EXCEPT !.count = 0, !.sum = 0, !.resets = @ + 1,
              !.feedback = ResetFeedback]

\* resetGame, called inside the updater: its setBalls updater is queued
\* behind the running one, the counters are set to 0, a target is drawn
\* (the draw is made when the frame commits, see Frame).
resetGame(q) ==
    [q EXCEPT !.resetBalls = TRUE, !.count = 0, !.sum = 0, !.resets = @ + 1,
              !.feedback = ResetFeedback]

\* The branch for a numbered, active ball with the test on the count left
\* out of the win condition.
PocketBall_sumOnly(q, i, c) ==
    LET newSum == c.pocketedSum + q.nb[i].number
        newCount == c.pocketedCount + 1
        q1 == [q EXCEPT !.nb[i].active = FALSE, !.sum = newSum,
                        !.count = newCount, !.pocketed = @ + 1,
                        !.feedback = PocketedFeedback]
    IN IF newSum > c.targetSum
       THEN resetGame(q1)
       ELSE IF newSum = c.targetSum
            THEN [q1 EXCEPT !.feedback = SolvedFeedback, !.confetti = TRUE,
                            !.solves = @ + 1]
            ELSE q1

\* The branch for a numbered, active ball with a reset as soon as the sum
\* reaches the target.
PocketBall_resetAtTarget(q, i, c) ==
    LET newSum == c.pocketedSum + q.nb[i].number
        newCount == c.pocketedCount + 1
        q1 == [q EXCEPT !.nb[i].active = FALSE, !.sum = newSum,
                        !.count = newCount, !.pocketed = @ + 1,
                        !.feedback = PocketedFeedback]
    IN IF newSum >= c.targetSum
       THEN resetGame(q1)
       ELSE IF newCount >= 7 /\ newSum = c.targetSum
            THEN [q1 EXCEPT !.feedback = SolvedFeedback, !.confetti = TRUE,
                            !.solves = @ + 1]
            ELSE q1

\* The branch for a numbered, active ball with the win condition asking
\* for 8 balls.
PocketBall_countEight(q, i, c) ==
    LET newSum == c.pocketedSum + q.nb[i].number
        newCount == c.pocketedCount + 1
        q1 == [q EXCEPT !.nb[i].active = FALSE, !.sum = newSum,
                        !.count = newCount, !.pocketed = @ + 1,
                        !.feedback = PocketedFeedback]
    IN IF newSum > c.targetSum
       THEN resetGame(q1)
       ELSE IF newCount >= 8 /\ newSum = c.targetSum
            THEN [q1 EXCEPT !.feedback = SolvedFeedback, !.confetti = TRUE,
                            !.solves = @ + 1]
            ELSE q1

\* The branch for a numbered, active ball inside a pocket.
PocketBall(q, i, c) ==
    LET newSum == c.pocketedSum + q.nb[i].number
        newCount == c.pocketedCount + 1
        q1 == [q EXCEPT !.nb[i].active = FALSE, !.sum = newSum,
                        !.count = newCount, !.pocketed = @ + 1,
                        !.feedback = PocketedFeedback]
    IN IF newSum > c.targetSum
       THEN resetGame(q1)
       ELSE IF newCount >= 7 /\ newSum = c.targetSum
            THEN [q1 EXCEPT !.feedback = SolvedFeedback, !.confetti = TRUE,
                            !.solves = @ + 1]
            ELSE q1

\* The body of pockets.forEach with a cue-ball branch that also counts the
\* cue ball as pocketed.
PocketBranch_cueCounts(q, i, p, c) ==
    IF InPocket(q.nb[i], pockets[p])
    THEN IF q.nb[i].number = 0
         THEN [q EXCEPT !.nb[i] = RespawnCue(@), !.fouls = @ + 1,
                        !.count = c.pocketedCount + 1,
                        !.feedback = FoulFeedback]
         ELSE IF q.nb[i].active
              THEN PocketBall(q, i, c)
              ELSE q
    ELSE q

\* The body of pockets.forEach without the test on ball.active.
PocketBranchAt_noActiveTest(q, i, pocket, c) ==
    IF InPocket(q.nb[i], pocket)
    THEN IF q.nb[i].number = 0
         THEN [q EXCEPT !.nb[i] = RespawnCue(@), !.fouls = @ + 1,
                        !.feedback = FoulFeedback]
         ELSE PocketBall(q, i, c)
    ELSE q

\* The body of pockets.forEach for ball i and the pocket at hand.
PocketBranchAt(q, i, pocket, c) ==
    IF InPocket(q.nb[i], pocket)
    THEN IF q.nb[i].number = 0
         THEN [q EXCEPT !.nb[i] = RespawnCue(@), !.fouls = @ + 1,
                        !.feedback = FoulFeedback]
         ELSE IF q.nb[i].active
              THEN PocketBall(q, i, c)
              ELSE q
    ELSE q

\* The body of pockets.forEach for ball i and pocket p of the table.
PocketBranch(q, i, p, c) == PocketBranchAt(q, i, pockets[p], c)

\* pockets.forEach(...) for ball i, from pocket p on.  (The tests on
\* .pocketed only make TLC finish one iteration before the next.)
RECURSIVE ForEachPocket(_, _, _, _)
ForEachPocket(q, i, p, c) ==
    IF p > Len(pockets)
    THEN q
    ELSE LET q1 == PocketBranch(q, i, p, c)
         IN IF q1.pocketed >= 0 THEN ForEachPocket(q1, i, p + 1, c) ELSE q1

\* The balls the pocket loop can act on: those within a pocket's capture
\* radius.  The loop moves a ball only by respawning it on such a hit, so
\* a ball that is outside every pocket when the loop starts stays outside
\* and its iterations do nothing.
NearPocket(nb) ==
    { i \in BallIdx : \E p \in 1..Len(pockets) : InPocket(nb[i], pockets[p]) }

\* newBalls.forEach(...) over the balls of todo, in array order.
RECURSIVE ForEachBall(_, _, _)
ForEachBall(q, todo, c) ==
    IF todo = {}
    THEN q
    ELSE LET i == CHOOSE i \in todo : \A j \in todo : i <= j
             q1 == ForEachPocket(q, i, 1, c)
         IN IF q1.pocketed >= 0 THEN ForEachBall(q1, todo \ {i}, c) ELSE q1

\* The updater of updatePhysics from the pocket check on, for the balls nb
\* that integration and collision resolution produced.
EvalPockets(nb, c) == ForEachBall(StartQ(nb, c), NearPocket(nb), c)

\* The same loops over a list of pockets given as an argument.
RECURSIVE ForEachPocketIn(_, _, _, _, _)
ForEachPocketIn(q, i, ps, p, c) ==
    IF p > Len(ps)
    THEN q
    ELSE LET q1 == PocketBranchAt(q, i, ps[p], c)
         IN IF q1.pocketed >= 0 THEN ForEachPocketIn(q1, i, ps, p + 1, c)
            ELSE q1

\* newBalls.forEach(...) for the balls i..last, in array order.
RECURSIVE ForEachBallIn(_, _, _, _, _)
ForEachBallIn(q, i, last, ps, c) ==
    IF i > last
    THEN q
    ELSE LET q1 == ForEachPocketIn(q, i, ps, 1, c)
         IN IF q1.pocketed >= 0 THEN ForEachBallIn(q1, i + 1, last, ps, c)
            ELSE q1

EvalPocketsIn(nb, ps, c) == ForEachBallIn(StartQ(nb, c), 1, Len(nb), ps, c)

\* The balls React commits: the updater's return value, then resetGame's
\* queued updater if there is one.
CommitBalls(q) ==
    IF q.resetBalls THEN [i \in BallIdx |-> ResetBall(q.nb[i])] ELSE q.nb

\* ------------------------------------------------------ SimulationLoop
\* requestAnimationFrame(render)
RequestFrame(pending) == pending + 1

\* A cleanup that cancels nothing.
Cleanup_noCancel(pending) == pending

\* The effect's cleanup: cancelAnimationFrame(animationFrameId).
Cleanup(pending) == IF pending > 0 THEN pending - 1 ELSE 0

\* A render with changed dependencies: the old effect is cleaned up and
\* the new one requests a frame.
Resubscribe(pending) == RequestFrame(Cleanup(pending))

Init ==
    /\ balls = initialBalls
    /\ pocketedCount = 0
    /\ pocketedSum = 0
    /\ \E r \in Draws : rnd = r /\ targetSum = generateRandomTarget(r, RandomDen)
    /\ showConfetti = FALSE
    /\ aiming = FALSE
    /\ aimPos = NoPos
    /\ mounted = TRUE
    /\ rafPending = 1
    /\ timers = 0
    /\ solveCalls = 0
    /\ currentPuzzleIndex = BilliardsIndex
    /\ feedback = NoFeedback
    /\ catalog = availableBallNumbers
    /\ pocketList = pockets

\* One animation frame: the browser takes the pending request and calls
\* render(timestamp), which runs updatePhysics and asks for the next frame;
\* React commits the queued updates and re-runs the effect.  Every call of
\* resetGame draws a target; setTargetSum keeps the last one.
CommitFrame(done) ==
    /\ rafPending > 0
    /\ timers + solveCalls < MaxSolves
    /\ \E q \in { done } :
          /\ balls' = CommitBalls(q)
          /\ pocketedCount' = q.count
          /\ pocketedSum' = q.sum
          /\ IF q.resets > 0
             THEN \E r \in Draws :
                     rnd' = r /\ targetSum' = generateRandomTarget(r, RandomDen)
             ELSE UNCHANGED << targetSum, rnd >>
          /\ showConfetti' = (showConfetti \/ q.confetti)
          /\ timers' = timers + q.solves
          /\ feedback' = q.feedback
    /\ rafPending' = IF mounted
                     THEN Resubscribe(RequestFrame(rafPending - 1))
                     ELSE RequestFrame(rafPending - 1)
    /\ UNCHANGED << aiming, aimPos, mounted, solveCalls, currentPuzzleIndex,
                    catalog, pocketList >>

RunFrame(nb) == CommitFrame(EvalPockets(nb, Closure))

\* A frame whose integration and collision resolution bring the balls of
\* m next to a pocket.
Frame(m) == \E nb \in { MotionOutcome(balls, m) } : RunFrame(nb)

FrameStep == \E m \in Motions(balls) : Frame(m)

\* PuzzlePage.handleSolve as closed over while puzzle number index is shown.
handleSolve(index) == IF index < NumPuzzles - 1 THEN index + 1 ELSE index

\* A solve timer fires: onSolve() is PuzzlePage's handleSolve of the render
\* that showed the billiards puzzle.  When the page moves on to the next
\* puzzle the billiards component is unmounted and its effect cleaned up.
SolveTimer ==
    /\ timers > 0
    /\ timers' = timers - 1
    /\ solveCalls' = solveCalls + 1
    /\ currentPuzzleIndex' = IF mounted THEN handleSolve(BilliardsIndex)
                             ELSE currentPuzzleIndex
    /\ mounted' = (mounted /\ currentPuzzleIndex' = BilliardsIndex)
    /\ rafPending' = IF mounted /\ ~mounted' THEN Cleanup(rafPending)
                     ELSE rafPending
    /\ UNCHANGED << gameVars, rnd, catalog, pocketList >>

\* The user leaves the puzzle page: the component is unmounted.
Unmount ==
    /\ mounted
    /\ mounted' = FALSE
    /\ rafPending' = Cleanup(rafPending)
    /\ UNCHANGED << gameVars, rnd, timers, solveCalls, currentPuzzleIndex,
                    catalog, pocketList >>

Next == FrameStep \/ SolveTimer \/ Unmount

Spec == Init /\ [][Next]_vars

\* The target selector on its own: the target drawn at mount and the one
\* drawn by every call of resetGame, with Math.random() sampled at
\* k / FineSteps, k = 0 .. FineSteps - 1.
FineDraws == 0..(FineSteps - 1)

TargetInit ==
    /\ balls = initialBalls
    /\ pocketedCount = 0
    /\ pocketedSum = 0
    /\ \E r \in FineDraws : rnd = r /\ targetSum = generateRandomTarget(r, FineSteps)
    /\ showConfetti = FALSE
    /\ aiming = FALSE
    /\ aimPos = NoPos
    /\ mounted = TRUE
    /\ rafPending = 1
    /\ timers = 0
    /\ solveCalls = 0
    /\ currentPuzzleIndex = BilliardsIndex
    /\ feedback = NoFeedback
    /\ catalog = availableBallNumbers
    /\ pocketList = pockets

\* resetGame and the commit of what it queued.
ResetGameStep ==
    /\ mounted
    /\ \E q \in { resetGame(StartQ(balls, Closure)) } :
          /\ balls' = CommitBalls(q)
          /\ pocketedCount' = q.count
          /\ pocketedSum' = q.sum
          /\ feedback' = q.feedback
    /\ \E r \in FineDraws : rnd' = r /\ targetSum' = generateRandomTarget(r, FineSteps)
    /\ rafPending' = Resubscribe(rafPending)
    /\ UNCHANGED << showConfetti, aiming, aimPos, mounted, timers, solveCalls,
                    currentPuzzleIndex, catalog, pocketList >>

TargetNext == ResetGameStep

TargetSpec == TargetInit /\ [][TargetNext]_vars

\* Target selection over other catalogs than the game's: the catalogs are
\* the sub-lists of the first MaxCatalog numbers, so that some have fewer
\* than 7 values and some have 7 or more.
RECURSIVE SubList(_, _, _)
SubList(numbers, S, i) ==
    IF i > Len(numbers) THEN << >>
    ELSE (IF i \in S THEN << numbers[i] >> ELSE << >>)
         \o SubList(numbers, S, i + 1)

\* Catalogs of 7 to MaxCatalog values in which values repeat, so that
\* different subsets have the same sum.
RepeatedCatalogs == UNION { [1..n -> {1, 2}] : n \in 7..MaxCatalog }

Catalogs ==
    { SubList(availableBallNumbers, S, 1) : S \in SUBSET (1..MaxCatalog) }
        \cup RepeatedCatalogs \cup { availableBallNumbers }

CatalogInit ==
    /\ balls = initialBalls
    /\ pocketedCount = 0
    /\ pocketedSum = 0
    /\ catalog \in Catalogs
    /\ pocketList = pockets
    /\ rnd = 1
    /\ targetSum = selectTarget(catalog, rnd, RandomDen)
    /\ showConfetti = FALSE
    /\ aiming = FALSE
    /\ aimPos = NoPos
    /\ mounted = TRUE
    /\ rafPending = 1
    /\ timers = 0
    /\ solveCalls = 0
    /\ currentPuzzleIndex = BilliardsIndex
    /\ feedback = NoFeedback

\* setTargetSum(generateRandomTarget()) over the catalog of the state.
SelectTargetStep ==
    /\ \E r \in Draws :
          /\ rnd' = r
          /\ targetSum' = selectTarget(catalog, r, RandomDen)
    /\ UNCHANGED << balls, pocketedCount, pocketedSum, showConfetti, aiming,
                    aimPos, mounted, rafPending, timers, solveCalls,
                    currentPuzzleIndex, feedback, catalog, pocketList >>

CatalogNext == SelectTargetStep

CatalogSpec == CatalogInit /\ [][CatalogNext]_vars

\* The numeric part of a frame on its own: integration, collision
\* resolution and whole frames, applied to layouts in which the balls
\* number 2, 3 and 7 are placed close to each other or to a pocket, moving
\* or at rest, ball 3 possibly pocketed before, and the other balls are
\* where the mount effect puts them.  A step is taken where the integer
\* arithmetic is exact.
Places2 == { << 150, 240 >>, << 70, 55 >>, << 150, 250 >> }
Places3 == { << 172, 240 >>, << 162, 256 >>, << 150, 240 >>, << 150, 256 >>,
             << 90, 55 >>, << 160, 55 >>, << 400, 240 >> }
Places7 == { << 198, 240 >>, << 700, 320 >> }
Speeds2 == { << 0, 0 >>, << PhysSpeed, 0 >>, << 0, PhysSpeed >>,
             << -PhysSpeed, PhysSpeed >>,
             << (3 * PhysSpeed) \div 5, (4 * PhysSpeed) \div 5 >> }
Speeds3 == { << 0, 0 >>, << -PhysSpeed, 0 >>, << -PhysSpeed, PhysSpeed >>,
             << -((3 * PhysSpeed) \div 5), -((4 * PhysSpeed) \div 5) >> }

PlaceBall(ball, pos, vel, act) ==
    [ball EXCEPT !.x = pos[1], !.y = pos[2], !.vx = vel[1], !.vy = vel[2],
                 !.active = act]

Layout(p2, v2, p3, v3, a3, p7) ==
    [initialBalls EXCEPT ![2] = PlaceBall(@, p2, v2, TRUE),
                         ![3] = PlaceBall(@, p3, v3, a3),
                         ![4] = PlaceBall(@, p7, << 0, 0 >>, TRUE)]

PhysicsInit ==
    /\ \E p2 \in Places2, v2 \in Speeds2,
          p3 \in Places3, v3 \in Speeds3, a3 \in BOOLEAN, p7 \in Places7 :
          balls = Layout(p2, v2, p3, v3, a3, p7)
    /\ pocketedCount = 0
    /\ pocketedSum = 0
    /\ \E r \in Draws : rnd = r /\ targetSum = generateRandomTarget(r, RandomDen)
    /\ showConfetti = FALSE
    /\ aiming = FALSE
    /\ aimPos = NoPos
    /\ mounted = TRUE
    /\ rafPending = 1
    /\ timers = 0
    /\ solveCalls = 0
    /\ currentPuzzleIndex = BilliardsIndex
    /\ feedback = NoFeedback
    /\ catalog = availableBallNumbers
    /\ pocketList = pockets

otherVars == << pocketedCount, pocketedSum, targetSum, showConfetti, aiming,
                aimPos, mounted, rafPending, timers, solveCalls,
                currentPuzzleIndex, rnd, feedback, catalog, pocketList >>

\* The integration step alone.
IntegrateStep(dtSec) ==
    /\ IntegrateExact(balls, dtSec)
    /\ balls' = integrateAll(balls, dtSec)
    /\ UNCHANGED otherVars

\* handleBallCollisions alone.
CollideStep ==
    /\ CollideExact(balls)
    /\ balls' = handleBallCollisions(balls)
    /\ UNCHANGED otherVars

\* The updater with the pocket check run before collision resolution.
updatePhysics_pocketsFirst(bs, dtSec, c) ==
    CHOOSE res \in { [q EXCEPT !.nb = handleBallCollisions(q.nb)] :
                        q \in { EvalPockets(moved, c) :
                                   moved \in { integrateAll(bs, dtSec) } } } :
        TRUE

\* The setBalls updater of updatePhysics(dt): integration, then collision
\* resolution, then the pocket check.
updatePhysics(bs, dtSec, c) ==
    CHOOSE res \in { EvalPockets(nb, c) :
                        nb \in { handleBallCollisions(integrateAll(bs, dtSec)) } } :
        TRUE

\* One animation frame with dt = 100 * dtSec ms.
PhysicsFrame(dtSec) ==
    /\ IntegrateExact(balls, dtSec)
    /\ \E moved \in { integrateAll(balls, dtSec) } :
          /\ CollideExact(moved)
          /\ CommitFrame(updatePhysics(balls, dtSec, Closure))

PhysicsNext ==
    \/ \E dtSec \in 0..MaxDtSec : IntegrateStep(dtSec)
    \/ CollideStep
    \/ \E dtSec \in 0..MaxDtSec : PhysicsFrame(dtSec)

PhysicsSpec == PhysicsInit /\ [][PhysicsNext]_vars

\* The pocket check over other pocket lists than the table's four corners:
\* with two more pockets, 42 px from the two left corners, a ball can be
\* within the capture radius of two pockets at once.
ExtraPockets == << [x |-> 70, y |-> 70], [x |-> 70, y |-> 330] >>
PocketLayouts == { pockets, pockets \o ExtraPockets, ExtraPockets \o pockets }

\* Where the frames start from: balls at rest, clear of one another.
CuePlaces == { << 100, 200 >>, << 55, 345 >> }
TwoPlaces == { << 55, 55 >>, << 80, 85 >>, << 150, 240 >> }
ThreePlaces == { << 745, 55 >>, << 400, 240 >> }
SunkPlace == << 745, 345 >>

\* Stages of a game towards the target GameTarget: the count, the sum and
\* the numbers already pocketed.
GameTarget == 50
GameStages ==
    { [count |-> 0, sum |-> 0, gone |-> {}],
      [count |-> 6, sum |-> 48, gone |-> {5, 6, 7, 8, 9, 13}],
      [count |-> 6, sum |-> 45, gone |-> {5, 6, 7, 8, 9, 10}],
      [count |-> 4, sum |-> 48, gone |-> {6, 12, 13, 17}] }

PocketLayout(p0, p2, p3, gone) ==
    [i \in BallIdx |->
        IF i = 1 THEN PlaceBall(initialBalls[i], p0, << 0, 0 >>, TRUE)
        ELSE IF i = 2 THEN PlaceBall(initialBalls[i], p2, << 0, 0 >>, TRUE)
        ELSE IF i = 3 THEN PlaceBall(initialBalls[i], p3, << 0, 0 >>, TRUE)
        ELSE IF initialBalls[i].number \in gone
             THEN PlaceBall(initialBalls[i], SunkPlace, << 0, 0 >>, FALSE)
             ELSE initialBalls[i]]

PocketInit ==
    /\ pocketList \in PocketLayouts
    /\ \E p0 \in CuePlaces, p2 \in TwoPlaces, p3 \in ThreePlaces,
          g \in GameStages :
          /\ balls = PocketLayout(p0, p2, p3, g.gone)
          /\ pocketedCount = g.count
          /\ pocketedSum = g.sum
    /\ targetSum = GameTarget
    /\ rnd = 1
    /\ showConfetti = FALSE
    /\ aiming = FALSE
    /\ aimPos = NoPos
    /\ mounted = TRUE
    /\ rafPending = 1
    /\ timers = 0
    /\ solveCalls = 0
    /\ currentPuzzleIndex = BilliardsIndex
    /\ feedback = NoFeedback
    /\ catalog = availableBallNumbers

\* updatePhysics with the pocket check running over the list ps.
updatePhysicsIn(bs, dtSec, ps, c) ==
    CHOOSE res \in { EvalPocketsIn(nb, ps, c) :
                        nb \in { handleBallCollisions(integrateAll(bs, dtSec)) } } :
        TRUE

\* One frame with dt = 0 over the pocket list of the state.
PocketFrame ==
    /\ IntegrateExact(balls, 0)
    /\ \E moved \in { integrateAll(balls, 0) } :
          /\ CollideExact(moved)
          /\ CommitFrame(updatePhysicsIn(balls, 0, pocketList, Closure))

PocketNext == PocketFrame

PocketSpec == PocketInit /\ [][PocketNext]_vars

\* The end of a game: the balls Spec's frames never move, and the next four
\* of the array, have been pocketed one per frame, so the count and the sum
\* are those of the pocketed balls; the target is one of the largest the
\* selector can draw, so none of these pocketings reached or passed it.
EndgameSpread == 4
EndgamePocketed == 2..9
EndgameSum == SumSeq([k \in 1..8 |-> initialBalls[k + 1].number])
EndgameTargets ==
    { gameFeasibleTargets[k] : k \in 1..Len(gameFeasibleTargets) } \cap
        (Max(EndgameSum + 1, gameMaxPossibleSum - EndgameSpread + 1)
            ..gameMaxPossibleSum)

EndgameInit ==
    /\ balls = [i \in BallIdx |->
                   IF i \in EndgamePocketed
                   THEN [ArriveAt(initialBalls[i], NearestPocket(initialBalls[i]))
                            EXCEPT !.active = FALSE]
                   ELSE initialBalls[i]]
    /\ pocketedCount = Cardinality(EndgamePocketed)
    /\ pocketedSum = EndgameSum
    /\ targetSum \in EndgameTargets
    /\ rnd = 1
    /\ showConfetti = FALSE
    /\ aiming = FALSE
    /\ aimPos = NoPos
    /\ mounted = TRUE
    /\ rafPending = 1
    /\ timers = 0
    /\ solveCalls = 0
    /\ currentPuzzleIndex = BilliardsIndex
    /\ feedback = PocketedFeedback
    /\ catalog = availableBallNumbers
    /\ pocketList = pockets

EndgameSpec == EndgameInit /\ [][Next]_vars

\* ------------------------------------------------------- pointer input
\* Math.hypot(mouseX - cueBall.x, mouseY - cueBall.y) < cueBall.radius + 5,
\* for an aim-start anywhere on the canvas.
nearCue_anywhere(cueBall, p) == TRUE

\* Math.hypot(mouseX - cueBall.x, mouseY - cueBall.y) < cueBall.radius + 5
nearCue(cueBall, p) ==
    LET dx == p[1] - cueBall.x
        dy == p[2] - cueBall.y
        reach == cueBall.radius + aimTolerance
    IN dx * dx + dy * dy < reach * reach

\* The map callback of handleMouseUp with a release on the cue ball's
\* centre stopping the ball.
applyShot_zeroStops(ball, p) ==
    IF ball.number = 0 /\ ball.active
    THEN LET dx == p[1] - ball.x
             dy == p[2] - ball.y
             d2 == dx * dx + dy * dy
         IN IF d2 > 0
            THEN LET distance == Isqrt(d2, canvasWidth + canvasHeight)
                     power2 == Min(distance, 2 * maxPower)
                 IN [ball EXCEPT !.vx = Div(dx * power2, 2 * distance),
                                 !.vy = Div(dy * power2, 2 * distance)]
            ELSE [ball EXCEPT !.vx = 0, !.vy = 0]
    ELSE ball

\* The map callback of handleMouseUp without the test on ball.number.
applyShot_anyBall(ball, p) ==
    IF ball.active
    THEN LET dx == p[1] - ball.x
             dy == p[2] - ball.y
             d2 == dx * dx + dy * dy
         IN IF d2 > 0
            THEN LET distance == Isqrt(d2, canvasWidth + canvasHeight)
                     power2 == Min(distance, 2 * maxPower)
                 IN [ball EXCEPT !.vx = Div(dx * power2, 2 * distance),
                                 !.vy = Div(dy * power2, 2 * distance)]
            ELSE ball
    ELSE ball

\* The map callback of handleMouseUp for a release at p: power2 is twice
\* the power, Math.min(distance * 0.5, 1000), and unitX * power is
\* (dx * power2) / (2 * distance).
applyShot(ball, p) ==
    IF ball.number = 0 /\ ball.active
    THEN LET dx == p[1] - ball.x
             dy == p[2] - ball.y
             d2 == dx * dx + dy * dy
         IN IF d2 > 0
            THEN LET distance == Isqrt(d2, canvasWidth + canvasHeight)
                     power2 == Min(distance, 2 * maxPower)
                 IN [ball EXCEPT !.vx = Div(dx * power2, 2 * distance),
                                 !.vy = Div(dy * power2, 2 * distance)]
            ELSE ball
    ELSE ball

\* The integer arithmetic of applyShot is exact for the cue ball of bs.
ShotExact(bs, p) ==
    \A i \in DOMAIN bs :
        (bs[i].number = 0 /\ bs[i].active) =>
            LET dx == p[1] - bs[i].x
                dy == p[2] - bs[i].y
                d2 == dx * dx + dy * dy
            IN d2 > 0 =>
                  LET distance == Isqrt(d2, canvasWidth + canvasHeight)
                      power2 == Min(distance, 2 * maxPower)
                  IN /\ distance * distance = d2
                     /\ Divides(2 * distance, dx * power2)
                     /\ Divides(2 * distance, dy * power2)

\* A render after a handler changed the state re-runs the frame effect.
AfterInput(changed) ==
    rafPending' = IF changed /\ mounted THEN Resubscribe(rafPending)
                  ELSE rafPending

inputFixed == << pocketedCount, pocketedSum, targetSum, showConfetti, mounted,
                timers, solveCalls, currentPuzzleIndex, rnd, feedback,
                catalog, pocketList >>

\* handleMouseDown with the pointer at p (canvas coordinates).
handleMouseDown(p) ==
    /\ mounted
    /\ IF nearCue(balls[1], p)
       THEN /\ aiming' = TRUE
            /\ aimPos' = [x |-> p[1], y |-> p[2]]
            /\ AfterInput(~aiming \/ aimPos # aimPos')
       ELSE UNCHANGED << aiming, aimPos, rafPending >>
    /\ UNCHANGED balls
    /\ UNCHANGED inputFixed

\* handleMouseMove with the pointer at p.
handleMouseMove(p) ==
    /\ mounted
    /\ IF aiming
       THEN /\ aimPos' = [x |-> p[1], y |-> p[2]]
            /\ AfterInput(aimPos # aimPos')
       ELSE UNCHANGED << aimPos, rafPending >>
    /\ UNCHANGED << aiming, balls >>
    /\ UNCHANGED inputFixed

\* handleMouseUp with the pointer at p.
handleMouseUp(p) ==
    /\ mounted
    /\ IF aiming
       THEN /\ ShotExact(balls, p)
            /\ aiming' = FALSE
            /\ balls' = [i \in DOMAIN balls |-> applyShot(balls[i], p)]
            /\ AfterInput(TRUE)
            /\ UNCHANGED aimPos
       ELSE UNCHANGED << aiming, aimPos, balls, rafPending >>
    /\ UNCHANGED inputFixed

\* Where the pointer is pressed, moved to and released.
PointerPlaces ==
    { << 100, 200 >>, << 110, 210 >>, << 112, 216 >>, << 220, 360 >>,
      << 300, 200 >>, << 160, 280 >>, << 180, 200 >> }

AimInit ==
    /\ balls = initialBalls
    /\ pocketedCount = 0
    /\ pocketedSum = 0
    /\ rnd = 1
    /\ targetSum = generateRandomTarget(rnd, RandomDen)
    /\ showConfetti = FALSE
    /\ aiming = FALSE
    /\ aimPos = NoPos
    /\ mounted = TRUE
    /\ rafPending = 1
    /\ timers = 0
    /\ solveCalls = 0
    /\ currentPuzzleIndex = BilliardsIndex
    /\ feedback = NoFeedback
    /\ catalog = availableBallNumbers
    /\ pocketList = pockets

AimNext ==
    \/ \E p \in PointerPlaces : handleMouseDown(p)
    \/ \E p \in PointerPlaces : handleMouseMove(p)
    \/ \E p \in PointerPlaces : handleMouseUp(p)
    \/ \E dtSec \in 0..MaxDtSec : PhysicsFrame(dtSec)

AimSpec == AimInit /\ [][AimNext]_vars

\* ------------------------------------------------------------ claims
Numbered == { i \in BallIdx : balls[i].number # 0 }
Inactive == { i \in Numbered : ~balls[i].active }

RECURSIVE SumNumbers(_)
SumNumbers(S) ==
    IF S = {} THEN 0
    ELSE LET i == CHOOSE i \in S : TRUE IN balls[i].number + SumNumbers(S \ {i})

AtInitial(ball) ==
    /\ ball.x = ball.initialX /\ ball.y = ball.initialY
    /\ ball.vx = 0 /\ ball.vy = 0 /\ ball.active

AllRestored == \A i \in BallIdx : AtInitial(balls[i])

\* C4: between frames pocketedSum is the sum of the numbers of the numbered
\* balls that are inactive.  (Stated as the claim states it; the code does
\* not keep it when two numbered balls are pocketed in one frame.)
C4_SumMatchesInactive == pocketedSum = SumNumbers(Inactive)

\* C5: between frames pocketedCount is the number of numbered balls that are
\* inactive.  (Stated as the claim states it; a frame that pockets two
\* numbered balls counts one.)
C5_CountMatchesInactive == pocketedCount = Cardinality(Inactive)

\* C9: in every step pocketedCount stays, grows, or becomes 0 together with
\* all balls being back at their initial position, at rest and active.
C9_CountMonotone ==
    [][ \/ pocketedCount' >= pocketedCount
        \/ pocketedCount' = 0 /\ AllRestored' ]_vars

\* C9 witness: a reset has taken the count from a positive value to 0.
C9_Witness ==
    /\ feedback = ResetFeedback /\ pocketedCount = 0 /\ AllRestored /\ mounted


\* C10 witness: the component was unmounted in the middle of a game.
C10_Witness == ~mounted /\ pocketedCount > 0 /\ timers = 0 /\ solveCalls = 0

\* C8: onSolve is never invoked while the component is unmounted.  (Stated
\* as the claim states it; the timer is not cleared on unmount.)
C8_NoSolveAfterUnmount == [][ ~mounted => solveCalls' = solveCalls ]_vars

\* C2: onSolve is invoked at most once for one mounted game.  (Stated as
\* the claim states it; every detected win schedules its own timer.)
C2_SolvedOnce == solveCalls <= 1

\* The pocket check on the balls nb, up to ball i (not included), and ball
\* i's iterations after it.
BeforeBall(nb, i) ==
    ForEachBall(StartQ(nb, Closure), { j \in NearPocket(nb) : j < i }, Closure)

AfterBall(b, i) == ForEachPocket(b, i, 1, Closure)

C7_CueFoulOnlyMovesCue ==
    (mounted /\ rafPending > 0) =>
        \A m \in Motions(balls) :
            1 \in m =>
                \E nb \in { MotionOutcome(balls, m) } :
                \E a \in { AfterBall(BeforeBall(nb, 1), 1) } :
                    /\ InPocket(nb[1], pockets[NearestPocket(balls[1])])
                    /\ a.fouls = 1
                    /\ a.nb[1] = [nb[1] EXCEPT !.x = nb[1].initialX,
                                               !.y = nb[1].initialY,
                                               !.vx = 0, !.vy = 0]
                    /\ \A j \in BallIdx \ {1} : a.nb[j] = nb[j]
                    /\ a.count = pocketedCount /\ a.sum = pocketedSum
                    /\ a.resets = 0 /\ ~a.resetBalls
                    /\ a.solves = 0 /\ a.pocketed = 0

\* C7 witness: a cue-ball foul happened in the middle of a game and the
\* counters and the pocketed balls are as before it.
C7_Witness ==
    /\ feedback = FoulFeedback /\ pocketedCount = 2 /\ Cardinality(Inactive) = 2
    /\ AtInitial(balls[1])

\* The feasible targets, as a set.
FeasibleSet == { gameFeasibleTargets[k] : k \in 1..Len(gameFeasibleTargets) }

\* C3: a frame in which resetGame is called (a pocketed ball took the sum
\* over the target) and that ends with every ball at its initial position,
\* at rest and active, ends with both counters 0 and a feasible target.
\* (Stated as the claim states it; a ball pocketed later in the same frame
\* sets the counters.)
C3_OvershootResetsAll ==
    [][ \A m \in Motions(balls) :
           ( /\ AllRestored'
             /\ Frame(m)
             /\ EvalPockets(MotionOutcome(balls, m), Closure).resets > 0 )
           => /\ pocketedCount' = 0
              /\ pocketedSum' = 0
              /\ targetSum' \in FeasibleSet ]_vars

\* C10: once the component is unmounted no animation-frame request is
\* outstanding and no step changes the game state.
C10_NoFrameAfterUnmount ==
    [][ /\ ~mounted' => rafPending' = 0
        /\ ~mounted => gameVars' = gameVars ]_vars

\* The sum of the catalog's values at the positions S.
RECURSIVE CatalogSum(_)
CatalogSum(S) ==
    IF S = {} THEN 0
    ELSE LET k == CHOOSE k \in S : TRUE
         IN availableBallNumbers[k] + CatalogSum(S \ {k})

\* The sums of the subsets of the catalog that have at least 7 elements.
SumsOfSevenOrMore ==
    { CatalogSum(S) : S \in { T \in SUBSET (1..Len(availableBallNumbers)) :
                                 Cardinality(T) >= 7 } }

\* C6: every target generateRandomTarget returns, at mount and at every
\* reset, is the sum of a subset of the catalog with at least 7 elements.
C6_TargetIsSubsetSum == targetSum \in SumsOfSevenOrMore

\* C6 witness: a reset drew the last of the feasible targets.
C6_Witness ==
    /\ feedback = ResetFeedback
    /\ targetSum = gameFeasibleTargets[Len(gameFeasibleTargets)]

\* C11: integrating any ball of a reachable state with dt = 0 leaves its
\* position and velocity unchanged.  (Stated as the claim states it; the
\* initial layout has a ball outside the clamping range.)
C11_ZeroDtIdentity ==
    \A i \in BallIdx :
        LET b == integrateBall(balls[i], 0)
        IN b.x = balls[i].x /\ b.y = balls[i].y
           /\ b.vx = balls[i].vx /\ b.vy = balls[i].vy

\* Two balls of bs overlap: both active, centres closer than the sum of the
\* radii.
Overlap(bs, i, j) ==
    LET dx == bs[j].x - bs[i].x
        dy == bs[j].y - bs[i].y
        minDist == bs[i].radius + bs[j].radius
    IN bs[i].active /\ bs[j].active /\ dx * dx + dy * dy < minDist * minDist

Coincident(bs, i, j) == bs[i].x = bs[j].x /\ bs[i].y = bs[j].y

\* C12: after a run of handleBallCollisions no two active balls with
\* distinct centres are closer than the sum of their radii.  (Stated as the
\* claim states it, for the pairs the resolver does not skip; a ball pushed
\* out of one overlap is pushed into another.)
C12_NoOverlapAfterCollisions ==
    [][ CollideStep =>
          \A i \in BallIdx : \A j \in BallIdx :
              i < j => (~Overlap(balls', i, j) \/ Coincident(balls', i, j)) ]_vars

Dot(vx, vy, dx, dy) == vx * dx + vy * dy
Cross(vx, vy, dx, dy) == vx * dy - vy * dx

\* C13: for every pair of active balls of a layout that overlap and are not
\* coincident, resolving the pair exchanges the two velocity components
\* along the line of centres and keeps each tangential component; a
\* head-on pair with opposite velocities along that line swaps velocities.
C13_NormalExchanged ==
    \A i \in BallIdx : \A j \in BallIdx :
        (i < j /\ Overlap(balls, i, j) /\ ~Coincident(balls, i, j)
               /\ PairExact(balls, i, j)) =>
            \E r \in { resolvePair(balls, i, j) } :
                LET dx == balls[j].x - balls[i].x
                    dy == balls[j].y - balls[i].y
                    A == balls[i]
                    B == balls[j]
                IN /\ Dot(r[i].vx, r[i].vy, dx, dy) = Dot(B.vx, B.vy, dx, dy)
                   /\ Dot(r[j].vx, r[j].vy, dx, dy) = Dot(A.vx, A.vy, dx, dy)
                   /\ Cross(r[i].vx, r[i].vy, dx, dy) = Cross(A.vx, A.vy, dx, dy)
                   /\ Cross(r[j].vx, r[j].vy, dx, dy) = Cross(B.vx, B.vy, dx, dy)
                   /\ ( /\ A.vx = -B.vx /\ A.vy = -B.vy
                        /\ Cross(A.vx, A.vy, dx, dy) = 0 )
                      => /\ r[i].vx = B.vx /\ r[i].vy = B.vy
                         /\ r[j].vx = A.vx /\ r[j].vy = A.vy

\* C13 witness: balls 2 and 3 met head-on along a diagonal line of centres
\* and the resolver has swapped their velocities and pushed them apart.
C13_Witness ==
    /\ balls[2].x = 147 /\ balls[2].y = 236
    /\ balls[3].x = 165 /\ balls[3].y = 260
    /\ balls[2].vx = -((3 * PhysSpeed) \div 5) /\ balls[2].vy = -((4 * PhysSpeed) \div 5)
    /\ balls[3].vx = (3 * PhysSpeed) \div 5 /\ balls[3].vy = (4 * PhysSpeed) \div 5
    /\ balls[2].active /\ balls[3].active

\* C14: the cue ball is active in every reachable state.
C14_CueAlwaysActive ==
    /\ balls[1].number = 0
    /\ balls[1].active

\* C14 witness: the cue ball was pocketed (a foul) after three numbered
\* balls and is back at its initial position, active.
C14_Witness ==
    /\ feedback = FoulFeedback /\ Cardinality(Inactive) = 3
    /\ balls[1].active /\ balls[1].x = balls[1].initialX

\* The numbers of the balls of bs other than the cue ball, in array order.
NumbersOf(bs) == [k \in 1..(Len(bs) - 1) |-> bs[k + 1].number]

\* C15: in every reachable state exactly one ball has number 0, the other
\* balls have pairwise distinct numbers, and these numbers are exactly the
\* values of availableBallNumbers; no step adds, removes or renumbers a ball.
C15_BallSetFixed ==
    /\ Len(balls) = Len(availableBallNumbers) + 1
    /\ Cardinality({ i \in 1..Len(balls) : balls[i].number = 0 }) = 1
    /\ \A i \in 1..Len(balls) : \A j \in 1..Len(balls) :
          (i # j) => balls[i].number # balls[j].number
    /\ { balls[i].number : i \in { k \in 1..Len(balls) : balls[k].number # 0 } }
          = { availableBallNumbers[k] : k \in 1..Len(availableBallNumbers) }
    /\ \A i \in 1..Len(balls) : balls[i].number = initialBalls[i].number

\* C15 witness: five numbered balls are pocketed and the ball array still
\* carries the cue ball and the twelve catalog numbers.
C15_Witness ==
    /\ feedback = PocketedFeedback /\ Cardinality(Inactive) = 5
    /\ pocketedCount = 5
    /\ NumbersOf(balls) = availableBallNumbers

\* C16: a catalog with fewer than 7 values has no subset of 7 or more, and
\* target selection then returns the sum of the whole catalog.
C16_FallbackIsCatalogSum ==
    Len(catalog) < 7 => targetSum = SumSeq(catalog)

\* A catalog of six values whose target was selected a second time.
C16_Witness ==
    /\ Len(catalog) = 6
    /\ rnd = 3
    /\ targetSum = SumSeq(catalog)
    /\ targetSum > 0

\* C17: in one frame's pocket check every ball triggers the pocketing side
\* effects at most once, also when it is within the capture radius of more
\* than one pocket: the pocketings of the frame are as many as the numbered
\* balls it deactivated, the cue ball fouls at most once, no more solved
\* notifications are scheduled than balls were pocketed, and the sum that
\* is stored holds the number of a pocketed ball once.
C17_OncePerBallPerFrame ==
    \A nb \in { handleBallCollisions(integrateAll(balls, 0)) } :
      \A q \in { EvalPocketsIn(nb, pocketList, Closure) } :
        \A sunk \in { { i \in BallIdx : /\ nb[i].number # 0
                                         /\ nb[i].active
                                         /\ ~q.nb[i].active } } :
            /\ q.pocketed = Cardinality(sunk)
            /\ q.fouls <= 1
            /\ q.solves <= Cardinality(sunk)
            /\ q.resets <= Cardinality(sunk)
            /\ (q.pocketed > 0 /\ q.resets = 0) =>
                   /\ q.count = pocketedCount + 1
                   /\ \E i \in sunk : q.sum = pocketedSum + nb[i].number

\* Ball 2 was pocketed in a frame in which it was within the capture
\* radius of two pockets of the list.
C17_Witness ==
    /\ Len(pocketList) = 6
    /\ Cardinality({ p \in 1..Len(pocketList) :
                        InPocket(balls[2], pocketList[p]) }) = 2
    /\ ~balls[2].active
    /\ balls[3].active
    /\ pocketedCount = 1
    /\ pocketedSum = 2

\* C18: at every pocketing of a numbered ball in a frame that can follow a
\* reachable state, if the new sum (pocketedSum + the ball's number) does
\* not exceed targetSum and it is not the case that the new count
\* (pocketedCount + 1) is at least 7 and the new sum equals targetSum, then
\* play continues: resetGame is not called (so no target is drawn), no
\* solved call is scheduled, no confetti is shown, and the ball's
\* iterations change nothing but the ball's active flag, the count and the
\* sum that are stored, and the feedback, which is the progress message.
C18_ContinuePlay ==
    \A nb \in { handleBallCollisions(integrateAll(balls, 0)) } :
      \A i \in BallIdx :
        \A newSum \in { pocketedSum + nb[i].number } :
          ( /\ nb[i].number # 0
            /\ nb[i].active
            /\ \E p \in 1..Len(pocketList) : InPocket(nb[i], pocketList[p])
            /\ newSum <= targetSum
            /\ ~(pocketedCount + 1 >= 7 /\ newSum = targetSum) ) =>
          \A b \in { ForEachBallIn(StartQ(nb, Closure), 1, i - 1,
                                    pocketList, Closure) } :
            \A a \in { ForEachPocketIn(b, i, pocketList, 1, Closure) } :
                a = [b EXCEPT !.nb[i].active = FALSE,
                              !.count = pocketedCount + 1,
                              !.sum = newSum,
                              !.pocketed = @ + 1,
                              !.feedback = PocketedFeedback]

\* Ball 2 was pocketed as the fifth ball and made the sum equal to the
\* target: nothing is scheduled, nothing is reset.
C18_Witness ==
    /\ pocketedCount = 5
    /\ pocketedSum = targetSum
    /\ ~balls[2].active
    /\ Cardinality(Inactive) = 5
    /\ feedback = PocketedFeedback
    /\ timers = 0 /\ ~showConfetti
    /\ rnd = 1

\* Ball i of bs lies within the capture radius of a pocket of the table.
InSomePocket(bs, i) == \E p \in 1..Len(pockets) : InPocket(bs[i], pockets[p])

\* C19: a frame integrates all balls, then resolves the collisions, then
\* evaluates the pockets, as one step: the balls it commits are those of
\* the pocket check run on the outcome of collision resolution run on the
\* outcome of integration, every numbered active ball that clamping or
\* de-penetration left within a capture radius is pocketed in that same
\* frame, and every ball the frame deactivates is within a capture radius
\* at its position after clamping and de-penetration.
C19_PhaseOrder ==
    [][ \A dtSec \in 0..MaxDtSec :
          PhysicsFrame(dtSec) =>
            \E nb \in { handleBallCollisions(integrateAll(balls, dtSec)) } :
              \E q \in { EvalPockets(nb, Closure) } :
                /\ balls' = CommitBalls(q)
                /\ \A i \in BallIdx :
                      (nb[i].number # 0 /\ nb[i].active /\ InSomePocket(nb, i)) =>
                          \/ ~balls'[i].active
                          \/ q.resetBalls /\ \A j \in BallIdx : AtInitial(balls'[j])
                /\ \A i \in BallIdx :
                      (balls[i].active /\ ~balls'[i].active) =>
                          InSomePocket(nb, i) ]_vars

\* Ball 2 was pocketed where pushing it out of ball 3 had left it: 25 px
\* right of the corner pocket, while it had started 30 px right of it.
C19_Witness ==
    /\ balls[2].x = 65 /\ balls[2].y = 55 /\ ~balls[2].active
    /\ balls[3].x = 95 /\ balls[3].y = 55 /\ balls[3].active
    /\ pocketedCount = 1 /\ pocketedSum = 2
    /\ feedback = PocketedFeedback

\* The balls bs with every inactive ball taken off the table, far from
\* every other ball.
Hidden(bs) ==
    [i \in DOMAIN bs |->
        IF bs[i].active THEN bs[i]
        ELSE [bs[i] EXCEPT !.x = -1000 * i, !.y = -1000]]

\* C20: in the integration and the collision resolution of every frame
\* that can follow a reachable state, a ball that is not active keeps its
\* position and velocity, and every active ball comes out as it would with
\* the inactive balls off the table.
C20_InactiveBallsInert ==
    \A dtSec \in 0..MaxDtSec :
        IntegrateExact(balls, dtSec) =>
            \A moved \in { integrateAll(balls, dtSec) } :
                CollideExact(moved) =>
                    \A nb \in { handleBallCollisions(moved) } :
                    \A alone \in { handleBallCollisions(
                                        integrateAll(Hidden(balls), dtSec)) } :
                    \A i \in BallIdx :
                        IF balls[i].active
                        THEN nb[i] = alone[i]
                        ELSE moved[i] = balls[i] /\ nb[i] = balls[i]

\* Ball 2 has rolled onto ball 3, which is not active and lies 10 px from
\* it: ball 2 has only been slowed by friction, ball 3 is where it was.
C20_Witness ==
    /\ balls[2].active /\ ~balls[3].active
    /\ balls[2].x = 170 /\ balls[2].y = 55
    /\ balls[2].vx = (PhysSpeed * frictionNum) \div frictionDen
    /\ balls[2].vy = 0
    /\ balls[3].x = 160 /\ balls[3].y = 55
    /\ balls[3].vx = -PhysSpeed /\ balls[3].vy = 0

\* C21: in the integration step of every frame that can follow a reachable
\* state, every active ball ends with x in [feltLeft + radius, feltRight -
\* radius] and y in [feltTop + radius, feltBottom - radius]; on each axis
\* on its own the velocity component is the friction-scaled one, negated
\* exactly when the moved position put the ball's edge outside the felt on
\* that axis.
C21_ClampAndReflect ==
    \A dtSec \in 0..MaxDtSec :
        IntegrateExact(balls, dtSec) =>
            \A i \in BallIdx :
                balls[i].active =>
                    \A b \in { integrateBall(balls[i], dtSec) } :
                        LET r == balls[i].radius
                            x1 == balls[i].x + balls[i].vx * dtSec
                            y1 == balls[i].y + balls[i].vy * dtSec
                            outX == x1 - r < feltLeft \/ x1 + r > feltRight
                            outY == y1 - r < feltTop \/ y1 + r > feltBottom
                            den == Pow(frictionDen, dtSec)
                            num == Pow(frictionNum, dtSec)
                        IN /\ feltLeft + r <= b.x /\ b.x <= feltRight - r
                           /\ feltTop + r <= b.y /\ b.y <= feltBottom - r
                           /\ ~outX => b.x = x1
                           /\ ~outY => b.y = y1
                           /\ b.vx * den = (IF outX THEN -1 ELSE 1) * balls[i].vx * num
                           /\ b.vy * den = (IF outY THEN -1 ELSE 1) * balls[i].vy * num

\* Ball 2 ran into the left wall and not into the bottom wall: x is clamped
\* and vx negated, y and vy are those of the free motion.
C21_Witness ==
    /\ balls[2].active
    /\ balls[2].x = feltLeft + balls[2].radius
    /\ balls[2].y = 340
    /\ balls[2].vx = (PhysSpeed * frictionNum) \div frictionDen
    /\ balls[2].vy = (PhysSpeed * frictionNum) \div frictionDen
    /\ pocketedCount = 0

\* C22: a release while aiming replaces the cue ball's velocity by the unit
\* vector from its centre to the release point times min(distance * 0.5,
\* 1000) if the cue ball is active and the distance is not zero, and leaves
\* the velocity as it was otherwise; the speed it sets is at most 1000 and
\* the cue ball stays where it is.
C22_ReleaseSetsCueVelocity ==
    [][ \A p \in PointerPlaces :
          (aiming /\ handleMouseUp(p)) =>
            LET cue == balls[1]
                dx == p[1] - cue.x
                dy == p[2] - cue.y
                d2 == dx * dx + dy * dy
            IN /\ balls'[1].x = cue.x /\ balls'[1].y = cue.y
               /\ balls'[1].active = cue.active
               /\ IF cue.active /\ d2 > 0
                  THEN \E distance \in 1..(canvasWidth + canvasHeight) :
                          /\ distance * distance = d2
                          /\ 2 * distance * balls'[1].vx =
                                dx * Min(distance, 2 * maxPower)
                          /\ 2 * distance * balls'[1].vy =
                                dy * Min(distance, 2 * maxPower)
                          /\ balls'[1].vx * balls'[1].vx
                                + balls'[1].vy * balls'[1].vy
                                <= maxPower * maxPower
                  ELSE balls'[1].vx = cue.vx /\ balls'[1].vy = cue.vy ]_vars

\* The cue ball was shot from its initial position with a release 200 px
\* away: its speed is 100, along (3, 4) / 5.
C22_Witness ==
    /\ balls[1].x = 100 /\ balls[1].y = 200
    /\ balls[1].vx = 60 /\ balls[1].vy = 80
    /\ ~aiming
    /\ aimPos # NoPos

\* The pointer at p is less than the cue ball's radius + 5 away from the
\* cue ball's centre.
WithinReach(p) ==
    (p[1] - balls[1].x) * (p[1] - balls[1].x)
        + (p[2] - balls[1].y) * (p[2] - balls[1].y)
    < (ballRadius + 5) * (ballRadius + 5)

\* C23: aiming mode is entered only by an aim-start whose pointer is within
\* (cue radius + 5) of the cue ball's centre of that moment, and an
\* aim-start farther away leaves the mode as it is; a release while not
\* aiming changes nothing, a release while aiming ends aiming mode, and no
\* other step ends it.  So a release changes the cue ball's velocity only
\* after such an aim-start with no release since.
C23_ShotNeedsAimStart ==
    [][ /\ (~aiming /\ aiming') =>
              \E p \in PointerPlaces : WithinReach(p) /\ handleMouseDown(p)
        /\ \A p \in PointerPlaces :
              (handleMouseDown(p) /\ ~WithinReach(p)) => UNCHANGED vars
        /\ \A p \in PointerPlaces :
              (handleMouseDown(p) /\ WithinReach(p)) =>
                  aiming' /\ aimPos' = [x |-> p[1], y |-> p[2]]
        /\ \A p \in PointerPlaces :
              handleMouseUp(p) => (~aiming' /\ (~aiming => UNCHANGED vars))
        /\ (aiming /\ ~aiming') => \E p \in PointerPlaces : handleMouseUp(p)
      ]_vars

\* A second shot: after a frame carried the cue ball to (160, 280), it was
\* aimed from there and released 100 px away.
C23_Witness ==
    /\ balls[1].x = 160 /\ balls[1].y = 280
    /\ balls[1].vx = 30 /\ balls[1].vy = 40
    /\ ~aiming

\* C24: in every frame that can follow a reachable state, a pair of active
\* balls whose centres coincide after integration is skipped by collision
\* resolution: resolving the pair changes no ball, each of the two balls
\* that no other active ball overlaps leaves collision resolution as it
\* entered it, and the pocket check of that frame still pockets every
\* numbered ball of the pair that lies within a capture radius.
C24_CoincidentPairSkipped ==
    \A dtSec \in 0..MaxDtSec :
        IntegrateExact(balls, dtSec) =>
            \A moved \in { integrateAll(balls, dtSec) } :
                \A i \in BallIdx : \A j \in BallIdx :
                    ( /\ i < j
                      /\ moved[i].active /\ moved[j].active
                      /\ Coincident(moved, i, j) ) =>
                        /\ resolvePair(moved, i, j) = moved
                        /\ CollideExact(moved) =>
                             \A nb \in { handleBallCollisions(moved) } :
                             \A q \in { EvalPockets(nb, Closure) } :
                             \A k \in {i, j} :
                                /\ (\A l \in BallIdx \ {i, j} :
                                        ~Overlap(moved, k, l)) =>
                                            nb[k] = moved[k]
                                /\ (nb[k].number # 0 /\ InSomePocket(nb, k)) =>
                                        ~q.nb[k].active

\* Balls 2 and 3 ran into the corner together, one on top of the other, and
\* both were pocketed in the same frame (the count holds the last update).
C24_Witness ==
    /\ Coincident(balls, 2, 3)
    /\ balls[2].x = feltLeft + balls[2].radius /\ balls[2].y = 340
    /\ ~balls[2].active /\ ~balls[3].active
    /\ balls[2].vx = balls[3].vx /\ balls[2].vy = balls[3].vy
    /\ pocketedCount = 1 /\ pocketedSum = 3

\* The sum of the values of numbers at the positions S.
RECURSIVE SubsetSum(_, _)
SubsetSum(numbers, S) ==
    IF S = {} THEN 0
    ELSE LET k == CHOOSE k \in S : TRUE
         IN numbers[k] + SubsetSum(numbers, S \ {k})

\* The sums of the sub-collections of numbers with at least 7 elements.
LargeSubsetSums(numbers) ==
    { SubsetSum(numbers, S) : S \in { T \in SUBSET (1..Len(numbers)) :
                                        Cardinality(T) >= 7 } }

\* C25: for every catalog, computeValidTargets returns exactly the sums of
\* the sub-collections with at least 7 elements: each of them is in the
\* result, nothing else is, and no value is in it twice.
C25_ValidTargetsExact ==
    \A t \in { computeValidTargets(catalog) } :
        /\ { t[k] : k \in 1..Len(t) } = LargeSubsetSums(catalog)
        /\ \A k \in 1..Len(t) : \A l \in 1..Len(t) : t[k] = t[l] => k = l

\* A catalog of eight values with nine sub-collections of 7 or more and
\* three sums, from which a target was selected.
C25_Witness ==
    /\ catalog = << 1, 1, 1, 1, 1, 1, 1, 2 >>
    /\ Len(computeValidTargets(catalog)) = 3
    /\ rnd = 3
    /\ targetSum \in {7, 8, 9}

\* The frames in which the balls of todo are pocketed one per frame, in
\* array order, from the balls bs and the counters count and sum, each
\* frame closing over the counters the frame before it committed: TRUE if
\* the last of them detects the win and none before it does or calls
\* resetGame.
RECURSIVE WinsBy(_, _, _, _, _)
WinsBy(bs, count, sum, target, todo) ==
    IF todo = {}
    THEN FALSE
    ELSE LET i == CHOOSE i \in todo : \A j \in todo : i <= j
             q == CHOOSE res \in
                    { EvalPockets(nb, [pocketedCount |-> count,
                                       pocketedSum |-> sum,
                                       targetSum |-> target,
                                       feedback |-> NoFeedback]) :
                        nb \in { MotionOutcome(bs, {i}) } } : TRUE
         IN IF q.resets > 0 \/ q.pocketed # 1
            THEN FALSE
            ELSE IF q.solves > 0
                 THEN todo = {i}
                 ELSE WinsBy(CommitBalls(q), q.count, q.sum, target, todo \ {i})

\* C26: from the state at mount and from every freshly reset state, for
\* the target that was drawn there is a set of numbered balls which,
\* pocketed one per frame, lead to the win being detected in the last of
\* these frames without resetGame being called on the way.
C26_TargetWinnable ==
    \E S \in SUBSET Numbered :
        /\ Cardinality(S) >= 7
        /\ SumNumbers(S) = targetSum
        /\ WinsBy(balls, pocketedCount, pocketedSum, targetSum, S)

\* A reset drew the smallest target, which only one set of seven balls
\* reaches.
C26_Witness ==
    /\ feedback = ResetFeedback
    /\ AllRestored
    /\ pocketedCount = 0 /\ pocketedSum = 0
    /\ targetSum = 2 + 3 + 5 + 6 + 7 + 8 + 9

\* C27: a numbered ball that a frame counts stays inactive until a reset:
\* in every frame that can follow a reachable state, a ball that is counted
\* with no resetGame call at or after its counting in that frame is
\* inactive when the frame has been committed (and so cannot be counted
\* again before a reset).  (Stated as the claim states it; a resetGame call
\* earlier in the same frame queues the restore of all balls behind the
\* running updater, and it reactivates the ball counted after it.)
C27_CountedBallStaysInactive ==
    (mounted /\ rafPending > 0) =>
        \A m \in Motions(balls) : \E nb \in { MotionOutcome(balls, m) } :
            \E q \in { EvalPockets(nb, Closure) } :
                \A i \in m :
                    balls[i].number # 0 =>
                        \E b \in { BeforeBall(nb, i) } :
                        \E a \in { AfterBall(b, i) } :
                            ( /\ a.pocketed = b.pocketed + 1
                              /\ a.resets = b.resets
                              /\ q.resets = a.resets ) =>
                                  ~CommitBalls(q)[i].active

\* C28: in every reachable state between frames the running sum does not
\* exceed the target and at most twelve balls are counted.
C28_SumWithinTarget ==
    /\ pocketedSum <= targetSum
    /\ pocketedCount <= Len(availableBallNumbers)

\* C29: in every reachable state in which no win has been detected at least
\* one numbered ball is still active.
C29_NeverStuck ==
    ~showConfetti => \E i \in Numbered : balls[i].active

\* The cue ball, moved by its velocity for dtSec, stays clear of the rails,
\* of every pocket and of every other active ball, all of them at rest.
FreeFlight(dtSec) ==
    LET x1 == balls[1].x + balls[1].vx * dtSec
        y1 == balls[1].y + balls[1].vy * dtSec
    IN /\ balls[1].active
       /\ x1 - ballRadius >= feltLeft /\ x1 + ballRadius <= feltRight
       /\ y1 - ballRadius >= feltTop /\ y1 + ballRadius <= feltBottom
       /\ \A k \in DOMAIN pockets :
             (x1 - pockets[k].x) * (x1 - pockets[k].x)
                + (y1 - pockets[k].y) * (y1 - pockets[k].y)
             >= pocketRadius * pocketRadius
       /\ \A j \in BallIdx \ {1} :
             balls[j].active =>
                /\ balls[j].vx = 0 /\ balls[j].vy = 0
                /\ (x1 - balls[j].x) * (x1 - balls[j].x)
                      + (y1 - balls[j].y) * (y1 - balls[j].y)
                   >= 4 * ballRadius * ballRadius

\* C30: an aim-start, an aim-move and an aim-release leave pocketedCount,
\* pocketedSum, targetSum and every numbered ball as they were, and the cue
\* ball's position and active flag too; they change only the aiming flag,
\* the aim position and (a release while aiming) the cue ball's velocity.
\* The frame that follows integrates the velocity the state holds, which
\* after a release is the released one: in free flight the cue ball moves by
\* that velocity times dt and keeps it reduced by the friction.
C30_PointerEventsOnlyAim ==
    [][ /\ \A p \in PointerPlaces :
              (handleMouseDown(p) \/ handleMouseMove(p) \/ handleMouseUp(p)) =>
                  /\ pocketedCount' = pocketedCount
                  /\ pocketedSum' = pocketedSum
                  /\ targetSum' = targetSum
                  /\ \A i \in BallIdx :
                        balls[i].number # 0 => balls'[i] = balls[i]
                  /\ balls'[1].x = balls[1].x /\ balls'[1].y = balls[1].y
                  /\ balls'[1].active = balls[1].active
                  /\ (balls'[1] # balls[1]) => (aiming /\ handleMouseUp(p))
        /\ \A dtSec \in 0..MaxDtSec :
              (PhysicsFrame(dtSec) /\ FreeFlight(dtSec)) =>
                  /\ balls'[1].x = balls[1].x + balls[1].vx * dtSec
                  /\ balls'[1].y = balls[1].y + balls[1].vy * dtSec
                  /\ Pow(frictionDen, dtSec) * balls'[1].vx
                        = Pow(frictionNum, dtSec) * balls[1].vx
                  /\ Pow(frictionDen, dtSec) * balls'[1].vy
                        = Pow(frictionNum, dtSec) * balls[1].vy ]_vars

\* The cue ball was shot from its initial position with the velocity
\* (60, 80) and the next frame, one second long, has moved it by that much.
C30_Witness ==
    /\ balls[1].x = 160 /\ balls[1].y = 280
    /\ balls[1].vx = 51 /\ balls[1].vy = 68
    /\ ~aiming /\ aimPos = [x |-> 220, y |-> 360]
    /\ \A i \in BallIdx \ {1} :
          balls[i].active /\ balls[i].vx = 0 /\ balls[i].vy = 0
    /\ pocketedCount = 0 /\ pocketedSum = 0

====
